---- MODULE Spec2Model ----
(***************************************************************************)
(* The RLViser synchronisation loop of examples/rlviser_socket.rs:         *)
(* run_socket (the fixed-rate loop), handle_return_message (the inbound    *)
(* pump), ctrl_channel (the interrupt channel), together with their        *)
(* environment: the peer that enqueues datagrams on the listening socket,  *)
(* the operator that raises the interrupt, and the transport, whose calls  *)
(* may fail.  Spec is that loop with a peer that sends a bounded number of  *)
(* datagrams; FloodSpec is the loop under a peer that never stops;         *)
(* PaceSpec is the loop with a clock that moves during the work of a tick; *)
(* ShutdownSpec is the loop from the interrupt to its return.  DumpSpec is *)
(* the recording utility of examples/dump_ball.rs.                         *)
(***************************************************************************)
EXTENDS Integers, Sequences, FiniteSets, TLC

----------------------------------------------------------------------------
(* Bounds of the model *)

\* engine advances after which no further tick is started
MaxTicks == 2
\* datagrams the peer sends during the whole run
MaxArrivals == 2
\* times the operator raises the interrupt
MaxInterrupts == 2
\* interval = 1 / (120 * speed), in units of the clock
Interval == 2
\* engine advances after which no further tick is started, when time passes
MaxPacedTicks == 4
\* how far past the current deadline the clock is let run
MaxLate == 3

----------------------------------------------------------------------------
(* Program constants *)

\* enum UdpPacketTypes, #[repr(u8)]: discriminants in declaration order
Quit == 0
GameStateAsQuit == Quit
GameState == 1

\* GameState::MIN_NUM_BYTES, the size of the header peeked from each datagram
\* (scaled: one count byte and two data bytes)
MIN_NUM_BYTES == 3
\* bytes every counted item adds to a message
ITEM_NUM_BYTES == 1

----------------------------------------------------------------------------
(* Byte buffers *)

Zeros(n) == [i \in 1..n |-> 0]

Min(a, b) == IF a < b THEN a ELSE b

\* copy of datagram d into a buffer buf, as recvfrom/MSG_PEEK does: the first
\* min(|d|, |buf|) bytes are overwritten, the rest of buf is left as it was
CopyInto(buf, d) ==
    [i \in 1..Len(buf) |-> IF i <= Len(d) THEN d[i] ELSE buf[i]]

\* GameState::get_num_bytes: the total message length, from the header alone
get_num_bytes(hdr) == MIN_NUM_BYTES + hdr[1] * ITEM_NUM_BYTES

\* GameState::from_bytes: the decoded state (the item count and the fields)
from_bytes(buf) == [num_items |-> buf[1], fields |-> SubSeq(buf, 2, Len(buf))]

\* datagrams the peer may send
Datagrams ==
    { <<>>,             \* zero-length
      <<1>>,            \* handshake ping
      <<1, 1>>,         \* shorter than the header
      <<0, 0, 1>>,      \* override, no item
      <<1, 1, 1, 1>> }  \* override, one item

IsPing(d) == Len(d) = 1

----------------------------------------------------------------------------
(* The engine (external collaborator): a state is a base state advanced   *)
(* a number of ticks                                                      *)

\* the state built by setup_arena: six cars, no state received from the peer
setup_arena == [base |-> [num_items |-> 6, fields |-> <<>>], n |-> 0]

\* arena.pin_mut().step(1): the engine advances by the one tick asked for
step2(a) == [a EXCEPT !.n = @ + 2]

step(a) == [a EXCEPT !.n = @ + 1]

\* the arena after set_game_state(gs) is accepted
replaced(gs) == [base |-> gs, n |-> 0]

----------------------------------------------------------------------------
VARIABLES
    pc,                 \* position of the main thread in run_socket
    result,             \* "running", or what run_socket returned: "ok", "err"
    queue,              \* the socket's receive queue, oldest first
    min_state_set_buf,  \* the reused header buffer of run_socket
    state_set_buf,      \* the receive buffer of handle_return_message
    arena,              \* the engine state
    game_state,         \* the snapshot read after the advance
    break_signal,       \* number of messages pending in the mpsc channel
    sent,               \* datagrams sent to rlviser_addr, in order
    \* history
    steps,              \* engine advances so far
    arrivals,           \* datagrams the peer has sent so far
    interrupts,         \* times the interrupt handler ran
    failure,            \* the transport call that failed last, or "none"
    pump,               \* history of the pump invocation of the current tick
    \* the pacing clock of run_socket
    now,                \* the monotonic clock, Instant::now()
    next_time,          \* the deadline of the current iteration
    wait_time,          \* the sleep computed last
    overran,            \* history: some iteration ended after its deadline
    raised_at,          \* history: the counters when the interrupt was raised first
    \* examples/dump_ball.rs
    file,               \* the bytes written to examples/ball.dump, in order
    dump_pc,            \* position of main
    dump_arena,         \* the arena of main: its tick count
    dump_call           \* the loop counter of main and the current call of write_ball

loopVars == <<pc, result, queue, min_state_set_buf, state_set_buf, arena,
              game_state, break_signal, sent, steps, arrivals,
              interrupts, failure, pump>>
timeVars == <<now, next_time, wait_time, overran>>
dumpVars == <<file, dump_pc, dump_arena, dump_call>>

vars == <<loopVars, timeVars, raised_at, dumpVars>>

Overrides(q) == SelectSeq(q, LAMBDA d : ~IsPing(d))

\* the last element of a sequence, as a sequence of at most one element
LastOf(q) == IF q = <<>> THEN <<>> ELSE <<q[Len(q)]>>

\* the record kept about the pump invocation of the current tick
NewPump(q, a) ==
    [ k         |-> Len(Overrides(q)),      \* overrides queued at the call
      last      |-> LastOf(Overrides(q)),   \* the override queued last
      arrived   |-> FALSE,      \* a datagram arrived during the call
      peek_err  |-> FALSE,      \* peek_from failed during the call
      consumed  |-> <<>>,       \* the override consumed last
      nconsumed |-> 0,          \* overrides consumed
      before    |-> a,          \* the engine state at the call
      applied   |-> <<>>,       \* the states given to set_game_state
      rejected  |-> FALSE,      \* set_game_state returned an error
      log       |-> <<>> ]      \* operations of the tick, in order

NoSnap == [base |-> [num_items |-> 0, fields |-> <<>>], n |-> -1]
TagDatagram(t) == [kind |-> "tag", byte |-> t, snap |-> NoSnap]
PayloadDatagram(gs) == [kind |-> "payload", byte |-> 0, snap |-> gs]

\* Instant::now() when next_time is first computed
StartTime == 0

Init ==
    /\ pc = "check"
    /\ result = "running"
    /\ queue = <<>>
    /\ min_state_set_buf = Zeros(MIN_NUM_BYTES)
    /\ state_set_buf = <<>>
    /\ arena = setup_arena
    /\ game_state = setup_arena
    /\ break_signal = 0
    /\ sent = <<>>
    /\ steps = 0
    /\ arrivals = 0
    /\ interrupts = 0
    /\ failure = "none"
    /\ pump = NewPump(<<>>, setup_arena)
    /\ now = StartTime
    /\ next_time = StartTime + Interval
    /\ wait_time = 0
    /\ overran = FALSE
    /\ raised_at = <<>>
    /\ file = <<>>
    /\ dump_pc = "create"
    /\ dump_arena = [tick_count |-> 0]
    /\ dump_call = [i |-> 0, time |-> 0, ball |-> 0]

Log(p, e) == [p EXCEPT !.log = Append(@, e)]

InPump == pc \in {"peek", "recv_ping", "recv_state", "apply"}

----------------------------------------------------------------------------
(* The environment *)

\* sender.send(()).unwrap() on the channel of channel(): the message is
\* added to those pending, however many there are
sender_send_twice(ch) == ch + 2

sender_send(ch) == ch + 1

\* ctrl_channel: the Ctrl+C handler sends one message on the unbounded channel
InterruptTo(new_raised_at) ==
    /\ result = "running"
    /\ interrupts < MaxInterrupts
    /\ break_signal' = sender_send(break_signal)
    /\ interrupts' = interrupts + 1
    /\ raised_at' = new_raised_at
    /\ UNCHANGED <<arrivals, pc, result, queue, min_state_set_buf, state_set_buf, arena,
                   game_state, sent, steps, failure, pump>>
    /\ UNCHANGED <<timeVars, dumpVars>>

Interrupt == InterruptTo(raised_at)

\* the peer sends datagram d to the listening socket
PeerSend(d) ==
    /\ result = "running"
    /\ arrivals < MaxArrivals
    /\ arrivals' = arrivals + 1
    /\ queue' = Append(queue, d)
    /\ pump' = IF InPump THEN [pump EXCEPT !.arrived = TRUE] ELSE pump
    /\ UNCHANGED <<pc, result, min_state_set_buf, state_set_buf, arena,
                   game_state, break_signal, sent, steps, interrupts, failure>>
    /\ UNCHANGED <<timeVars, raised_at, dumpVars>>

----------------------------------------------------------------------------
(* run_socket *)

\* the ? operator on a failed call: run_socket returns the error
IgnoreErr(what) ==
    /\ result' = result
    /\ failure' = what
    /\ pc' = "check"

ReturnErr(what) ==
    /\ result' = "err"
    /\ failure' = what
    /\ pc' = "done"

\* break Ok(()): the loop ends and run_socket returns Ok
NoBreak == [pc |-> "check", result |-> "running"]

BreakErr == [pc |-> "done", result |-> "err"]

BreakOk == [pc |-> "done", result |-> "ok"]

\* continue after a ping: the drain goes on with the next peek
AfterPingReturn == "apply"

AfterPing == "peek"

\* end of the while body after an override: the drain goes on
AfterOverrideReturn == "apply"

AfterOverride == "peek"

\* state_set_buf = vec![0; num_bytes]: a fresh zeroed buffer replaces the old
ReuseBuf(old, num_bytes) == IF old = <<>> THEN Zeros(num_bytes) ELSE old

NewBuf(old, num_bytes) == Zeros(num_bytes)

\* if let Err(e) = ...set_game_state(..) { println!(..) }; Ok(()): what the
\* pump returns for an accepted and for a rejected state
PumpPropagates(accept) == IF accept THEN "ok" ELSE "err"

PumpResult(accept) == "ok"

\* break_signal.try_recv().is_ok(): a message is pending in the channel
SignalPendingTwice(ch) == ch > 1

SignalPendingAlways(ch) == ch >= 0

SignalPending(ch) == ch > 0

\* loop top: break_signal.try_recv().is_ok(); otherwise the call of
\* handle_return_message, which starts with an empty state_set_buf
CheckBreakUpTo(max_ticks) ==
    /\ pc = "check"
    /\ \/ /\ SignalPending(break_signal)
          /\ break_signal' = break_signal - 1
          /\ pc' = "send_quit"
          /\ UNCHANGED <<state_set_buf, pump>>
       \/ /\ ~SignalPending(break_signal)
          /\ steps < max_ticks
          /\ pc' = "peek"
          /\ state_set_buf' = <<>>
          /\ pump' = NewPump(queue, arena)
          /\ UNCHANGED break_signal
    /\ UNCHANGED <<arrivals, result, queue, min_state_set_buf, arena, game_state, sent,
                   steps, interrupts, failure>>
    /\ UNCHANGED <<timeVars, raised_at, dumpVars>>

CheckBreak == CheckBreakUpTo(MaxTicks)

\* socket.send_to(&[UdpPacketTypes::Quit as u8], rlviser_addr)?; break Ok(())
SendQuit ==
    /\ pc = "send_quit"
    /\ \/ /\ sent' = Append(sent, TagDatagram(Quit))
          /\ result' = BreakOk.result
          /\ pc' = BreakOk.pc
          /\ UNCHANGED failure
       \/ /\ ReturnErr("send")
          /\ UNCHANGED sent
    /\ UNCHANGED <<arrivals, queue, min_state_set_buf, state_set_buf, arena, game_state,
                   break_signal, steps, interrupts, pump>>
    /\ UNCHANGED <<timeVars, raised_at, dumpVars>>

\* socket.set_nonblocking(true): a receive call on an empty queue returns
\* an error at once instead of waiting for a datagram
socket_blocking == FALSE

socket_nonblocking == TRUE

\* while let Ok((num_bytes, src)) = socket.peek_from(min_state_set_buf):
\* the header of the oldest datagram is copied, the datagram stays queued;
\* any Err (nothing queued, or a failure) ends the loop
Peek ==
    /\ pc = "peek"
    /\ \/ /\ queue # <<>>
          /\ LET d == Head(queue)
                 hdr == CopyInto(min_state_set_buf, d)
                 num_bytes == Min(Len(d), MIN_NUM_BYTES)
             IN  /\ min_state_set_buf' = hdr
                 /\ IF num_bytes = 1
                       THEN /\ pc' = "recv_ping"
                            /\ UNCHANGED state_set_buf
                       ELSE /\ pc' = "recv_state"
                            /\ state_set_buf' =
                                   NewBuf(state_set_buf, get_num_bytes(hdr))
          /\ UNCHANGED pump
       \/ /\ queue = <<>>
          /\ socket_nonblocking
          /\ pc' = "apply"
          /\ UNCHANGED <<min_state_set_buf, state_set_buf, pump>>
       \/ /\ pc' = "apply"
          /\ pump' = [pump EXCEPT !.peek_err = TRUE]
          /\ UNCHANGED <<min_state_set_buf, state_set_buf>>
    /\ UNCHANGED <<arrivals, result, queue, arena, game_state, break_signal,
                   sent, steps, interrupts, failure>>
    /\ UNCHANGED <<timeVars, raised_at, dumpVars>>

\* socket.recv_from(&mut buf)? of a ping: the datagram is consumed
RecvPingTo(new_pump) ==
    /\ pc = "recv_ping"
    /\ \/ /\ queue' = Tail(queue)
          /\ pump' = new_pump
          /\ pc' = AfterPing
          /\ UNCHANGED <<result, failure>>
       \/ /\ ReturnErr("recv")
          /\ UNCHANGED <<queue, pump>>
    /\ UNCHANGED <<arrivals, min_state_set_buf, state_set_buf, arena, game_state,
                   break_signal, sent, steps, interrupts>>
    /\ UNCHANGED <<timeVars, raised_at, dumpVars>>

RecvPing == RecvPingTo(Log(pump, "recv"))

\* socket.recv_from(&mut state_set_buf)?: the datagram is consumed into the
\* buffer allocated from the peeked header
RecvStateTo(new_pump) ==
    /\ pc = "recv_state"
    /\ \/ /\ state_set_buf' = CopyInto(state_set_buf, Head(queue))
          /\ queue' = Tail(queue)
          /\ pump' = new_pump
          /\ pc' = AfterOverride
          /\ UNCHANGED <<result, failure>>
       \/ /\ ReturnErr("recv")
          /\ UNCHANGED <<queue, state_set_buf, pump>>
    /\ UNCHANGED <<arrivals, min_state_set_buf, arena, game_state, break_signal, sent,
                   steps, interrupts>>
    /\ UNCHANGED <<timeVars, raised_at, dumpVars>>

RecvState ==
    RecvStateTo(Log([pump EXCEPT !.consumed = <<Head(queue)>>,
                                 !.nconsumed = @ + 1], "recv"))

\* Arena::set_game_state (engine): the state is replaced, or the engine
\* rejects it and keeps its state
set_game_state(a, gs, accept) == IF accept THEN replaced(gs) ELSE a

\* end of handle_return_message: nothing received, or from_bytes and
\* set_game_state, whose error is reported and dropped; Ok(()) either way
Apply ==
    /\ pc = "apply"
    /\ IF state_set_buf = <<>>
          THEN /\ pc' = "step"
               /\ UNCHANGED <<arena, pump, result, failure>>
          ELSE \E accept \in BOOLEAN :
                  LET gs == from_bytes(state_set_buf)
                  IN  /\ arena' = set_game_state(arena, gs, accept)
                      /\ pump' = Log([pump EXCEPT !.applied = Append(@, gs),
                                                  !.rejected = ~accept], "apply")
                      /\ IF PumpResult(accept) = "ok"
                            THEN /\ pc' = "step"
                                 /\ UNCHANGED <<result, failure>>
                            ELSE ReturnErr("engine")
    /\ UNCHANGED <<arrivals, queue, min_state_set_buf, state_set_buf,
                   game_state, break_signal, sent, steps, interrupts>>
    /\ UNCHANGED <<timeVars, raised_at, dumpVars>>

\* what follows the advance in the loop body: the snapshot is read and sent
\* before the interrupt is looked at again
AfterStepCheck == "check"

AfterStep == "get_state"

\* arena.pin_mut().step(1)
Step ==
    /\ pc = "step"
    /\ arena' = step(arena)
    /\ steps' = steps + 1
    /\ pump' = Log(pump, "step")
    /\ pc' = AfterStep
    /\ UNCHANGED <<arrivals, result, queue, min_state_set_buf, state_set_buf, game_state,
                   break_signal, sent, interrupts, failure>>
    /\ UNCHANGED <<timeVars, raised_at, dumpVars>>

\* let game_state = arena.pin_mut().get_game_state()
GetGameState ==
    /\ pc = "get_state"
    /\ game_state' = arena
    /\ pump' = Log(pump, "read")
    /\ pc' = "send_tag"
    /\ UNCHANGED <<arrivals, result, queue, min_state_set_buf, state_set_buf, arena,
                   break_signal, sent, steps, interrupts, failure>>
    /\ UNCHANGED <<timeVars, raised_at, dumpVars>>

\* socket.send_to(&[UdpPacketTypes::GameState as u8], rlviser_addr)?
SendTag ==
    /\ pc = "send_tag"
    /\ \/ /\ sent' = Append(sent, TagDatagram(GameState))
          /\ pump' = Log(pump, "tag")
          /\ pc' = "send_payload"
          /\ UNCHANGED <<result, failure>>
       \/ /\ ReturnErr("send")
          /\ UNCHANGED <<sent, pump>>
    /\ UNCHANGED <<arrivals, queue, min_state_set_buf, state_set_buf, arena, game_state,
                   break_signal, steps, interrupts>>
    /\ UNCHANGED <<timeVars, raised_at, dumpVars>>

\* socket.send_to(&game_state.to_bytes(), rlviser_addr)?
SendPayload ==
    /\ pc = "send_payload"
    /\ \/ /\ sent' = Append(sent, PayloadDatagram(game_state))
          /\ pump' = Log(pump, "payload")
          /\ pc' = "sleep"
          /\ UNCHANGED <<result, failure>>
       \/ /\ ReturnErr("send")
          /\ UNCHANGED <<sent, pump>>
    /\ UNCHANGED <<arrivals, queue, min_state_set_buf, state_set_buf, arena, game_state,
                   break_signal, steps, interrupts>>
    /\ UNCHANGED <<timeVars, raised_at, dumpVars>>

\* next_time - Instant::now(): the subtraction of two instants saturates,
\* it is the zero duration when the deadline is in the past
instant_sub_signed(a, b) == a - b

instant_sub(a, b) == IF a > b THEN a - b ELSE 0

\* next_time += interval
NextDeadlineFromNow(deadline, clock) == clock + Interval

NextDeadline(deadline, clock) == deadline + Interval

\* the pacing sleep, then the next iteration: the thread sleeps for
\* wait_time when that is positive and wakes when it has passed; the
\* deadline moves on by one interval either way
Sleep ==
    /\ pc = "sleep"
    /\ LET wait == instant_sub(next_time, now)
           woken == IF wait > 0 THEN now + wait ELSE now
       IN  /\ wait_time' = wait
           /\ now' = woken
           /\ next_time' = NextDeadline(next_time, woken)
    /\ overran' = (overran \/ now > next_time)
    /\ pump' = Log(pump, "sleep")
    /\ pc' = "check"
    /\ UNCHANGED <<arrivals, result, queue, min_state_set_buf, state_set_buf, arena,
                   game_state, break_signal, sent, steps, interrupts, failure>>
    /\ UNCHANGED <<raised_at, dumpVars>>

Next ==
    \/ Interrupt
    \/ \E d \in Datagrams : PeerSend(d)
    \/ CheckBreak
    \/ SendQuit
    \/ Peek
    \/ RecvPing
    \/ RecvState
    \/ Apply
    \/ Step
    \/ GetGameState
    \/ SendTag
    \/ SendPayload
    \/ Sleep

Spec == Init /\ [][Next]_vars

----------------------------------------------------------------------------
(* The loop under a peer that never stops sending *)

\* datagrams that fit in the socket's receive queue
MaxQueue == 1
\* engine advances after which no further tick is started under the flood
MaxFloodTicks == 1

\* what the flooding peer sends: pings and complete states
FloodDatagrams == {d \in Datagrams : IsPing(d) \/ Len(d) >= MIN_NUM_BYTES}

\* the peer sends datagram d whenever the receive queue has room; the
\* number of datagrams it sends over the run is not bounded
PeerFlood(d) ==
    /\ result = "running"
    /\ Len(queue) < MaxQueue
    /\ queue' = Append(queue, d)
    /\ pump' = IF InPump THEN [pump EXCEPT !.arrived = TRUE] ELSE pump
    /\ UNCHANGED <<pc, result, min_state_set_buf, state_set_buf, arena, game_state,
                   break_signal, sent, steps, arrivals, interrupts, failure>>
    /\ UNCHANGED <<timeVars, raised_at, dumpVars>>

\* the steps of the main thread; the receive steps keep no history of the
\* datagrams consumed, so that a drain of any length is a finite cycle
FloodLoop ==
    \/ CheckBreakUpTo(MaxFloodTicks)
    \/ Peek
    \/ RecvPingTo(pump)
    \/ RecvStateTo(pump)
    \/ Apply
    \/ Step
    \/ GetGameState
    \/ SendTag
    \/ SendPayload
    \/ Sleep

FloodNext ==
    \/ \E d \in FloodDatagrams : PeerFlood(d)
    \/ FloodLoop

\* a step of the main thread in which no transport call fails
FloodProgress ==
    FloodLoop /\ failure' = failure /\ (pump'.peek_err => pump.peek_err)

\* the main thread keeps running: a call that can return without a failure
\* does return; failures may happen but are never forced
FloodSpec == Init /\ [][FloodNext]_vars /\ WF_vars(FloodProgress)
----------------------------------------------------------------------------
(* The loop when the work of a tick takes time *)

\* the clock moves on by one unit, at any position of the loop: the work of
\* the tick takes time, and a sleep may end later than asked
Elapse ==
    /\ result = "running"
    /\ now < next_time + MaxLate
    /\ now' = now + 1
    /\ UNCHANGED <<loopVars, next_time, wait_time, overran, raised_at, dumpVars>>

\* the loop with an idle peer and no interrupt
PaceNext ==
    \/ Elapse
    \/ CheckBreakUpTo(MaxPacedTicks)
    \/ Peek
    \/ Apply
    \/ Step
    \/ GetGameState
    \/ SendTag
    \/ SendPayload
    \/ Sleep

PaceSpec == Init /\ [][PaceNext]_vars

----------------------------------------------------------------------------
(* examples/dump_ball.rs *)

NUM_TICKS == 60

\* the fields write_ball writes, in the order of its write_f32 calls
BallFields ==
    << "time", "pos.x", "pos.y", "pos.z", "vel.x", "vel.y", "vel.z",
       "ang_vel.x", "ang_vel.y", "ang_vel.z" >>

\* write_u16::<LittleEndian>(n): the low byte, then the high byte
write_u16(n) == << n % 256, (n \div 256) % 256 >>

\* write_f32::<LittleEndian>(v): the four bytes of v, the least
\* significant (b = 0) first
write_f32(v) == [b \in 1..4 |-> [of |-> v, b |-> b - 1]]

\* the value of field f in a call of write_ball: the time argument (in
\* ticks, tick_count / tick_rate), or a component of the ball the engine
\* returned after that many ticks
FieldValue(f, call) ==
    IF f = "time" THEN [f |-> f, tick |-> call.time]
                  ELSE [f |-> f, tick |-> call.ball]

\* 1 + NUM_TICKS in u16 arithmetic
RecordCountTicks == NUM_TICKS % 65536

RecordCount == (1 + NUM_TICKS) % 65536

\* the ? operator in main and in write_ball
DumpErr == dump_pc' = "err" /\ UNCHANGED <<file, dump_arena, dump_call>>

\* fs::File::create("examples/ball.dump")?
Create ==
    /\ dump_pc = "create"
    /\ \/ /\ file' = <<>>
          /\ dump_pc' = "count"
          /\ UNCHANGED <<dump_arena, dump_call>>
       \/ DumpErr
    /\ UNCHANGED <<loopVars, timeVars, raised_at>>

\* file.write_u16::<LittleEndian>(1 + NUM_TICKS)?, then the call
\* write_ball(&mut file, ball, 0.) with the ball set before any step
WriteCount ==
    /\ dump_pc = "count"
    /\ \/ /\ file' = file \o write_u16(RecordCount)
          /\ dump_pc' = "write"
          /\ dump_call' = [dump_call EXCEPT !.time = 0,
                                            !.ball = dump_arena.tick_count]
          /\ UNCHANGED dump_arena
       \/ DumpErr
    /\ UNCHANGED <<loopVars, timeVars, raised_at>>

\* the bytes of the first n fields of a call of write_ball
RECURSIVE FieldBytes(_, _)
FieldBytes(n, call) ==
    IF n = 0 THEN <<>>
    ELSE FieldBytes(n - 1, call) \o write_f32(FieldValue(BallFields[n], call))

\* write_ball: the ten write_f32 calls in order; when one fails the fields
\* before it are in the file and main returns the error; after the last one
\* write_ball returns Ok to main, which goes on with its for loop
write_ball ==
    /\ dump_pc = "write"
    /\ \/ /\ file' = file \o FieldBytes(Len(BallFields), dump_call)
          /\ dump_pc' = IF dump_call.i < NUM_TICKS THEN "step" ELSE "done"
       \/ \E n \in 0..(Len(BallFields) - 1) :
             /\ file' = file \o FieldBytes(n, dump_call)
             /\ dump_pc' = "err"
    /\ UNCHANGED <<dump_arena, dump_call>>
    /\ UNCHANGED <<loopVars, timeVars, raised_at>>

\* Arena::step(1) (engine): the tick count goes up by the one tick asked for
arena_step(a) == [a EXCEPT !.tick_count = @ + 1]

\* one iteration of for _ in 0..NUM_TICKS up to its call of write_ball:
\* arena.step(1), get_ball, and the time argument tick_count / tick_rate
DumpStep ==
    /\ dump_pc = "step"
    /\ dump_arena' = arena_step(dump_arena)
    /\ dump_call' = [i |-> dump_call.i + 1,
                     time |-> dump_arena'.tick_count,
                     ball |-> dump_arena'.tick_count]
    /\ dump_pc' = "write"
    /\ UNCHANGED <<file, loopVars, timeVars, raised_at>>

DumpNext ==
    \/ Create
    \/ WriteCount
    \/ write_ball
    \/ DumpStep

DumpSpec == Init /\ [][DumpNext]_vars

----------------------------------------------------------------------------
(* Vocabulary of the properties *)

IsQuitTag(m) == m.kind = "tag" /\ m.byte = Quit
IsStateTag(m) == m.kind = "tag" /\ m.byte = GameState
IsPayload(m) == m.kind = "payload"

NumQuit == Len(SelectSeq(sent, IsQuitTag))
NumPairs ==
    Cardinality({ i \in 2..Len(sent) :
                    IsPayload(sent[i]) /\ IsStateTag(sent[i - 1]) })
QuitIsLast == Len(sent) >= 1 /\ IsQuitTag(sent[Len(sent)])

\* the snapshot sent last
LastSnap == LET ps == SelectSeq(sent, IsPayload) IN ps[Len(ps)].snap

\* the loop has taken a message from the channel
Observed == interrupts - break_signal > 0

Logged(e) == \E i \in DOMAIN pump.log : pump.log[i] = e

\* a well-formed override: long enough to carry its header, and as long as
\* its own header says
WellFormed(d) == Len(d) >= MIN_NUM_BYTES /\ Len(d) = get_num_bytes(d)

\* datagram d as recv_from leaves it in a zeroed buffer of n bytes
Received(d, n) == [i \in 1..n |-> IF i <= Len(d) THEN d[i] ELSE 0]

\* the step by which handle_return_message returns Ok
PumpReturns == pc = "apply" /\ pc' = "step"

----------------------------------------------------------------------------
(* C1..C3: the inbound pump *)

C2_AtMostOneLatest ==
    /\ Len(pump.applied) <= 1
    /\ pump.applied # <<>> =>
          /\ pump.consumed # <<>>
          /\ LET d == pump.consumed[1]
             IN  /\ pump.applied[1] =
                       from_bytes(Received(d, Len(state_set_buf)))
                 /\ WellFormed(d) => pump.applied[1] = from_bytes(d)

\* an override arrived while the drain was running and superseded another
C2_Witness ==
    /\ pump.arrived
    /\ pump.nconsumed = 2
    /\ Len(pump.applied) = 1
    /\ pump.k = 1
    /\ pump.consumed # pump.last

----------------------------------------------------------------------------
(* C4..C6: shutdown and the outbound sequence *)

\* C4 as stated: in every execution in which the interrupt was raised,
\* exactly one Quit tag has been sent when run_socket returns, and it is the
\* last datagram sent.
C4_QuitInEveryExecution ==
    (result # "running" /\ interrupts > 0) => (NumQuit = 1 /\ QuitIsLast)

\* C4, amended: when run_socket returns Ok, exactly one Quit tag has been
\* sent, the interrupt was raised before, and the Quit is the last datagram;
\* when run_socket returns an error, no Quit has been sent; in no execution
\* is any datagram sent after a Quit.
C4_QuitOnCleanReturn ==
    /\ result = "ok" => (NumQuit = 1 /\ QuitIsLast /\ interrupts > 0)
    /\ result = "err" => NumQuit = 0
    /\ result = "running" => NumQuit = 0
    /\ \A i \in DOMAIN sent : IsQuitTag(sent[i]) => i = Len(sent)

\* the interrupt was raised twice, in the middle of a tick; one Quit was sent
C4_Witness ==
    /\ result = "ok"
    /\ interrupts = 2
    /\ NumQuit = 1 /\ QuitIsLast
    /\ NumPairs >= 1

\* C5 as stated: once the top-of-loop check has observed the interrupt,
\* run_socket returns Ok and never an error.
C5_NeverAnError ==
    (Observed /\ pc = "done") => result = "ok"

\* C5, amended: once the top-of-loop check has observed the interrupt, the
\* loop does nothing but send one Quit tag; it returns Ok when that send
\* succeeds, and the send error, with no Quit sent, when it fails.
C5_CleanStopOrSendError ==
    Observed =>
        /\ pc \in {"send_quit", "done"}
        /\ pc = "send_quit" => (result = "running" /\ NumQuit = 0)
        /\ pc = "done" =>
              \/ result = "ok" /\ NumQuit = 1 /\ QuitIsLast /\ failure = "none"
              \/ result = "err" /\ NumQuit = 0 /\ failure = "send"

\* the interrupt was observed and the run ended cleanly
C5_Witness ==
    /\ Observed
    /\ pc = "done"
    /\ result = "ok"
    /\ QuitIsLast

\* in these positions the tick's advance is done and its pair is not yet sent
InFlight == pc \in {"get_state", "send_tag", "send_payload"}

\* C6 as stated, outside the two sends of a pair: every GameState tag is
\* immediately followed by a payload, every payload follows a GameState tag,
\* at most one Quit tag is sent and nothing follows it, and outside the
\* sending part of a tick there is one pair per engine advance.
C6_AlwaysPaired ==
    pc # "send_payload" =>
        /\ \A i \in DOMAIN sent :
              /\ IsStateTag(sent[i]) => (i < Len(sent) /\ IsPayload(sent[i + 1]))
              /\ IsPayload(sent[i]) => (i > 1 /\ IsStateTag(sent[i - 1]))
              /\ IsQuitTag(sent[i]) => i = Len(sent)
        /\ NumQuit <= 1
        /\ ~InFlight => NumPairs = steps

\* a send failed and run_socket returned its error
SendFailed == result = "err" /\ failure = "send"

\* C6, amended: the datagrams sent are (GameState tag, payload)* followed by
\* at most one Quit tag, except that a GameState tag is the last datagram,
\* without its payload, while the payload is about to be sent or after a
\* failed send ended the run; every engine advance has its pair, except the
\* advance of the tick that is sending or whose send failed.
C6_PairedUnlessSendFailed ==
    /\ \A i \in DOMAIN sent :
          CASE IsStateTag(sent[i]) ->
                  IF i < Len(sent)
                     THEN IsPayload(sent[i + 1])
                     ELSE pc = "send_payload" \/ SendFailed
            [] IsPayload(sent[i]) -> i > 1 /\ IsStateTag(sent[i - 1])
            [] IsQuitTag(sent[i]) -> i = Len(sent)
            [] OTHER -> FALSE
    /\ LET unpaired == steps - NumPairs
       IN  /\ unpaired \in {0, 1}
           /\ InFlight => unpaired = 1
           /\ unpaired = 1 => (InFlight \/ SendFailed)

\* two ticks sent their pairs, then the Quit tag ended the sequence
C6_Witness ==
    /\ result = "ok"
    /\ NumPairs = 2 /\ steps = 2
    /\ Len(sent) = 5
    /\ QuitIsLast

----------------------------------------------------------------------------
(* C7..C10: the order of a tick, and failures *)

\* the place of each operation in a tick
Rank(e) ==
    CASE e = "recv"    -> 1
      [] e = "apply"   -> 2
      [] e = "step"    -> 3
      [] e = "read"    -> 4
      [] e = "tag"     -> 5
      [] e = "payload" -> 6
      [] e = "sleep"   -> 7

\* the override the engine accepted in this tick, if any
Accepted == pump.applied # <<>> /\ ~pump.rejected

\* C7: the operations of a tick occur in the order drain, application of the
\* override, advance by exactly one tick, read of the state, tag, payload,
\* sleep, none of the later ones without the earlier ones; the snapshot sent
\* is the engine state after the advance, which is the accepted override S
\* advanced by one tick when there is one, and the state at the start of the
\* tick advanced by one tick otherwise.
C7_TickOrder ==
    LET log == pump.log
        done == { log[i] : i \in DOMAIN log }
    IN  /\ \A i \in 1..(Len(log) - 1) :
              \/ Rank(log[i]) < Rank(log[i + 1])
              \/ log[i] = "recv" /\ log[i + 1] = "recv"
        /\ "sleep" \in done => "payload" \in done
        /\ "payload" \in done => "tag" \in done
        /\ "tag" \in done => "read" \in done
        /\ "read" \in done => "step" \in done
        /\ pump.applied # <<>> => "apply" \in done
        /\ "step" \in done =>
              IF Accepted
                 THEN arena.base = pump.applied[1] /\ arena.n = 1
                 ELSE /\ arena.base = pump.before.base
                      /\ arena.n = pump.before.n + 1
        /\ "read" \in done => game_state = arena
        /\ "payload" \in done => LastSnap = arena

\* a tick in which an override was consumed and accepted ran to its sleep
C7_Witness ==
    /\ Logged("sleep")
    /\ Logged("recv")
    /\ Accepted
    /\ LastSnap = [base |-> pump.applied[1], n |-> 1]

\* C8: a receive failure during the drain, on the peek or on a consuming
\* receive, makes run_socket return the error: the engine is not advanced and
\* nothing is sent after it.
C8_ReceiveFailureFatal ==
    /\ failure = "recv" => (result = "err" /\ ~Logged("step"))
    /\ pump.peek_err =>
          (~Logged("apply") /\ ~Logged("step") /\ ~Logged("tag")
             /\ pc \in {"apply", "done"})

\* C9: a failed send makes run_socket return the error in the same step;
\* the datagram is not sent again, and after the return no datagram is sent
\* and the engine is not advanced.
C9_SendFailureFatal ==
    [][ /\ (failure' = "send" /\ failure # "send")
           => /\ result' = "err" /\ pc' = "done"
              /\ sent' = sent /\ arena' = arena /\ steps' = steps
        /\ result = "err"
           => /\ result' = "err"
              /\ sent' = sent /\ arena' = arena /\ steps' = steps ]_vars

\* the payload send failed after its tag was sent: the tag stays alone
C9_Witness ==
    /\ SendFailed
    /\ Len(sent) >= 1 /\ IsStateTag(sent[Len(sent)])
    /\ NumQuit = 0
    /\ break_signal > 0

\* C10: when the engine rejects the override, the pump returns Ok with the
\* engine state as it was at the call; the tick advances that state by one
\* tick and sends it; run_socket does not return because of the rejection
\* (only a failed send of that tick can end it).
C10_RejectionNotFatal ==
    pump.rejected =>
        /\ pc # "apply"
        /\ pc = "step" => (arena = pump.before /\ result = "running")
        /\ result = "err" => (failure = "send" /\ Logged("step"))
        /\ Logged("step") =>
              (arena.base = pump.before.base /\ arena.n = pump.before.n + 1)
        /\ Logged("payload") => LastSnap = arena

\* a rejected override, and the tick ran to its sleep
C10_Witness ==
    /\ pump.rejected
    /\ Logged("sleep")
    /\ result = "running"
    /\ LastSnap.base = pump.before.base

NumStateTags == Len(SelectSeq(sent, IsStateTag))
NumPayloads == Len(SelectSeq(sent, IsPayload))

\* the operations of the current tick contain a, b, c in that order
InOrder(a, b, c) ==
    \E i, j, k \in DOMAIN pump.log :
        /\ i < j /\ j < k
        /\ pump.log[i] = a /\ pump.log[j] = b /\ pump.log[k] = c

\* C11: when the Quit datagram is sent (the loop is about to send it, or it
\* is the last datagram sent), the number of engine advances equals the
\* number of GameState tags sent and the number of payloads sent, every
\* payload directly follows its tag, and an override applied in the last
\* tick was followed by that tick's advance and by its sent snapshot.
C11_QuitAfterWholeTicks ==
    (pc = "send_quit" \/ QuitIsLast) =>
        /\ steps = NumStateTags
        /\ steps = NumPayloads
        /\ steps = NumPairs
        /\ pump.applied # <<>> => InOrder("apply", "step", "payload")
        /\ (Accepted /\ steps > 0) => LastSnap.base = pump.applied[1]

\* Quit was sent after a tick that applied an accepted override, with a
\* second interrupt raised before the first was looked at
C11_Witness ==
    /\ QuitIsLast /\ result = "ok"
    /\ steps >= 1
    /\ Accepted
    /\ interrupts = 2 /\ break_signal = 1

C13_PumpAlwaysReturns == InPump ~> ~InPump

\* C13: no receive call waits: at every position of a running loop a step
\* without a failure is possible at once (at the top of the loop, as long as
\* a tick may start); and the pump returns, or run_socket returns an error,
\* unless the peer enqueues datagrams again and again for ever.
C13_NonBlockingDrain ==
    /\ [](( /\ result = "running"
            /\ pc = "check" => steps < MaxFloodTicks )
          => ENABLED <<FloodProgress>>_vars)
    /\ \/ []<><<\E d \in FloodDatagrams : PeerFlood(d)>>_vars
       \/ InPump ~> ~InPump

\* a datagram arrived while the drain ran, the drain consumed it as the
\* override and the pump returned
C13_Witness ==
    /\ pc = "step"
    /\ pump.arrived /\ pump.k = 0
    /\ pump.applied # <<>>

\* the Sleep step of the loop
SleepStep == pc = "sleep" /\ pc' = "check"

\* iterations whose sleep has been passed
Completed ==
    IF Logged("step") /\ ~Logged("sleep") THEN steps - 1 ELSE steps

\* C14: after n completed iterations the deadline is t0 + (n+1)*interval,
\* whatever time the ticks took; the sleep asked for at the end of a tick is
\* max(0, deadline - now): zero, never negative, when the tick ended late.
C14_DeadlineAndSleep ==
    /\ [](next_time = StartTime + (Completed + 1) * Interval)
    /\ [][SleepStep =>
            /\ wait_time' = (IF next_time > now THEN next_time - now ELSE 0)
            /\ wait_time' >= 0
            /\ now > next_time => (wait_time' = 0 /\ now' = now)
            /\ next_time' = next_time + Interval ]_vars

\* the second tick ended late and asked for no sleep
C14_Witness ==
    /\ pc = "check" /\ Logged("sleep")
    /\ steps = 2
    /\ wait_time = 0
    /\ now > StartTime + 2 * Interval

\* C15: an iteration that reaches its sleep at or before its deadline ends
\* exactly at that deadline, which is on the grid t0 + n*interval; so while
\* no iteration has overrun, iteration n ends at t0 + n*interval, and after
\* an overrun the iterations sleep zero exactly as long as the clock is past
\* the deadline and end on the grid again from the first one that is not.
C15_NoDrift ==
    [][SleepStep =>
        /\ next_time = StartTime + steps * Interval
        /\ ~overran' => now' = StartTime + steps * Interval
        /\ now <= next_time => now' = StartTime + steps * Interval
        /\ now > next_time => (wait_time' = 0 /\ now' = now)
        /\ next_time' = StartTime + (steps + 1) * Interval ]_vars

\* an iteration overran by more than one interval, the next slept zero, and
\* a later one slept and ended on the grid
C15_Witness ==
    /\ pc = "check" /\ Logged("sleep")
    /\ overran
    /\ wait_time > 0
    /\ now = StartTime + steps * Interval
    /\ steps = MaxPacedTicks

\* the record count read back from the first two bytes of the file
CountRead == file[1] + 256 * file[2]

\* the byte of the file at offset b of field j of record r
ByteAt(r, j, b) == file[2 + 40 * r + 4 * (j - 1) + b + 1]

\* C16: a recording written to the end starts with the 2-byte
\* little-endian count N, equal to the number of records, 1 + NUM_TICKS = 61;
\* record r (from 0) is the ten little-endian 32-bit fields time, position
\* x y z, velocity x y z, angular velocity x y z of the ball after r ticks,
\* at time r ticks, so the first record is at time 0; the file has
\* 2 + 40*N = 2442 bytes.
C16_RecordingFormat ==
    dump_pc = "done" =>
        /\ CountRead = 1 + NUM_TICKS
        /\ CountRead = 61
        /\ Len(file) = 2 + 40 * CountRead
        /\ Len(file) = 2442
        /\ \A r \in 0..(CountRead - 1) : \A j \in 1..10 : \A b \in 0..3 :
              ByteAt(r, j, b) = [of |-> [f |-> BallFields[j], tick |-> r], b |-> b]
        /\ ByteAt(0, 1, 0).of = [f |-> "time", tick |-> 0]

\* the recording was written to the end
C16_Witness ==
    /\ dump_pc = "done"
    /\ dump_arena.tick_count = NUM_TICKS
    /\ Len(file) = 2442

\* C17 as stated: when a datagram is about to be consumed as an override,
\* the receive buffer has the length the codec computes from the header
\* bytes of that datagram (zero where the datagram has no byte), not from
\* bytes an earlier peek of another datagram left in the header buffer
C17_LengthFromOwnHeader ==
    pc = "recv_state" =>
        Len(state_set_buf) =
            get_num_bytes(Received(Head(queue), MIN_NUM_BYTES))

----------------------------------------------------------------------------
(* C18: the loop from the interrupt to the Quit *)

\* the handler runs as in Interrupt; the first time, the counters of the
\* loop are noted
MarkedInterrupt ==
    InterruptTo(IF raised_at = <<>>
                   THEN << [steps |-> steps, tags |-> NumStateTags,
                            payloads |-> NumPayloads] >>
                   ELSE raised_at)

\* the steps of the main thread
Loop ==
    \/ CheckBreak
    \/ SendQuit
    \/ Peek
    \/ RecvPing
    \/ RecvState
    \/ Apply
    \/ Step
    \/ GetGameState
    \/ SendTag
    \/ SendPayload
    \/ Sleep

\* datagrams the peer sends during a run that is shut down
MaxShutdownArrivals == 1

\* the peer sends a ping or a complete state
ShutdownPeerSend ==
    \E d \in FloodDatagrams : arrivals < MaxShutdownArrivals /\ PeerSend(d)

ShutdownNext ==
    \/ MarkedInterrupt
    \/ ShutdownPeerSend
    \/ Loop

\* a step of the main thread in which no transport call fails
Progress ==
    Loop /\ failure' = failure /\ (pump'.peek_err => pump.peek_err)

\* the main thread keeps running: a call that can return without a failure
\* does return and every sleep ends; the peer sends finitely many
\* datagrams, so every drain ends
ShutdownSpec == Init /\ [][ShutdownNext]_vars /\ WF_vars(Progress)

\* C18: once the interrupt has been raised, run_socket eventually returns,
\* with Ok and the Quit as the last datagram sent unless a transport call
\* failed; and from the raising on, at most one engine advance happens and
\* at most one GameState tag and one payload are sent.
C18_BoundedShutdown ==
    /\ (interrupts > 0) ~>
           \/ result = "ok" /\ QuitIsLast
           \/ result = "err" /\ failure \in {"recv", "send"}
    /\ [](raised_at # <<>> =>
           /\ steps - raised_at[1].steps <= 1
           /\ NumStateTags - raised_at[1].tags <= 1
           /\ NumPayloads - raised_at[1].payloads <= 1)

\* the interrupt was raised during the drain of a tick: that tick advanced
\* the engine and sent its snapshot, then the Quit was sent
C18_Witness ==
    /\ result = "ok" /\ QuitIsLast
    /\ raised_at # <<>>
    /\ steps = raised_at[1].steps + 1
    /\ NumStateTags = raised_at[1].tags + 1
    /\ NumPayloads = raised_at[1].payloads + 1
    /\ pump.applied # <<>>

----------------------------------------------------------------------------
(* C19: how the loop ends *)

\* C19: the Quit is sent, or about to be sent, only after the interrupt was
\* raised; run_socket has returned Ok only with the one Quit as the last
\* datagram sent, and an error only after a failed receive or send; so with
\* no interrupt and no transport failure it has not returned, and at the
\* top of the loop with no signal pending the next tick starts.
C19_EndsByShutdownOrFailure ==
    /\ (NumQuit > 0 \/ pc = "send_quit") => interrupts > 0
    /\ (pc = "done") = (result # "running")
    /\ result = "ok" => (QuitIsLast /\ NumQuit = 1)
    /\ result = "err" => failure \in {"recv", "send"}
    /\ (interrupts = 0 /\ failure = "none") => result = "running"
    /\ (pc = "check" /\ break_signal = 0 /\ steps < MaxTicks) =>
           ENABLED (CheckBreak /\ pc' = "peek")

\* no interrupt and no failed call: the loop ran every tick the bound lets
\* it run, the last one with a rejected override, and has not returned
C19_Witness ==
    /\ interrupts = 0 /\ failure = "none"
    /\ steps = MaxTicks /\ pc = "check"
    /\ result = "running"
    /\ pump.rejected
====
